---------------------------- MODULE Spec2Model ----------------------------
(***************************************************************************)
(* A model of stataread.c: reading Stata version 5/6 .dta files into a     *)
(* data frame (do_readStata / R_LoadStataData) and writing a data frame    *)
(* as a version 6 .dta file (do_writeStata / R_SaveStataData).             *)
(*                                                                         *)
(* Bytes are numbers 0..255.  A C int is a number in -2^31 .. 2^31-1.  A   *)
(* double is its 8 IEEE bytes and a float its 4 IEEE bytes, most           *)
(* significant byte first; the bytes an object has in memory are these in  *)
(* the host's order (see Mem).                                            *)
(***************************************************************************)
EXTENDS Integers, Sequences, FiniteSets, TLC

VARIABLES
    machine,          \* the host's byte order: "big" or "little"
    endian,           \* static int endian
    stata_endian,     \* static int stata_endian
    STATA_FLOAT_NA,   \* static double STATA_FLOAT_NA
    STATA_DOUBLE_NA,  \* static double STATA_DOUBLE_NA
    pc,               \* per call chain: where its control is
    fp,               \* per call chain: its file, [bytes, pos, open]
    ld,               \* per call chain: the locals of R_LoadStataData
    sv,               \* per call chain: the locals of R_SaveStataData
    ret,              \* per call chain: the last In*Binary call and its value
    out,              \* per call chain: how its last call ended
    job               \* per call chain: the calls still to make, and the argument

vars == <<machine, endian, stata_endian, STATA_FLOAT_NA, STATA_DOUBLE_NA,
          pc, fp, ld, sv, ret, out, job>>

(***************************************************************************)
(* Program constants                                                       *)
(***************************************************************************)
LOHI == 1
HILO == 2
STATA_FLOAT == 102
STATA_DOUBLE == 100
STATA_INT == 108
STATA_SHORTINT == 105
STATA_BYTE == 98
STATA_STRINGOFFSET == 127
STATA_BYTE_NA == 127
STATA_SHORTINT_NA == 32767
STATA_INT_NA == 2147483647
VERSION_5 == 105
VERSION_6 == 108

\* R's NA_INTEGER and NA_LOGICAL are INT_MIN; NA_REAL is the NaN with low word 1954
NA_INTEGER == -2147483647 - 1
NA_REAL == <<127, 240, 0, 0, 0, 0, 7, 162>>
\* pow(2,127) and pow(2,1023) as doubles
Pow2_127 == <<71, 224, 0, 0, 0, 0, 0, 0>>
Pow2_1023 == <<127, 224, 0, 0, 0, 0, 0, 0>>
\* (float) NA_REAL: the conversion of a NaN is a (quiet) NaN
FloatOfNA == <<127, 192, 0, 0>>
\* the double 0.0, the value of a static double before setup_consts
DoubleZero == <<0, 0, 0, 0, 0, 0, 0, 0>>
\* the double 1.0
DoubleOne == <<63, 240, 0, 0, 0, 0, 0, 0>>

(***************************************************************************)
(* Bytes, integers and IEEE values                                         *)
(***************************************************************************)
Byte == 0..255

Reverse(s) == [k \in 1..Len(s) |-> s[Len(s) + 1 - k]]

Zeros(n) == [k \in 1..n |-> 0]

\* the bytes of an object in memory, from its bytes most significant first
Mem(v) == IF machine = "big" THEN v ELSE Reverse(v)

\* a C int from its 4 bytes, most significant first (two's complement)
IntOfBytes(b) ==
    (IF b[1] >= 128 THEN (b[1] - 256) * 16777216 ELSE b[1] * 16777216)
    + (b[2] * 65536 + b[3] * 256 + b[4])

\* the 4 bytes of a C int, most significant first
BytesOfInt(i) ==
    LET v == IF i >= 0 THEN i ELSE (i + 2147483647) + 1
        lo == v % 16777216
    IN  << (IF i >= 0 THEN 0 ELSE 128) + (v \div 16777216),
           lo \div 65536, (lo \div 256) % 256, lo % 256 >>

IsNaN(d) == /\ d[1] % 128 = 127
            /\ d[2] \div 16 = 15
            /\ (d[2] % 16 # 0 \/ \E k \in 3..8 : d[k] # 0)

\* R_FINITE(d): neither NaN nor infinite
R_FINITE(d) == ~(d[1] % 128 = 127 /\ d[2] \div 16 = 15)

IsZeroD(d) == d[1] % 128 = 0 /\ \A k \in 2..8 : d[k] = 0

\* the C comparison a == b of two doubles
DoubleEq(a, b) ==
    /\ ~IsNaN(a)
    /\ ~IsNaN(b)
    /\ (a = b \/ (IsZeroD(a) /\ IsZeroD(b)))

\* a double from sign, biased exponent and the 23 leading bits of its mantissa
PackDouble(s, e, m) ==
    << s * 128 + (e \div 16), (e % 16) * 16 + (m \div 524288),
       (m \div 2048) % 256, (m \div 8) % 256, (m % 8) * 32, 0, 0, 0 >>

RECURSIVE NormShift(_)
\* how often a denormal float's mantissa is doubled until bit 23 is set
NormShift(m) == IF m >= 8388608 THEN 0 ELSE 1 + NormShift(2 * m)

RECURSIVE Pow2(_)
Pow2(n) == IF n = 0 THEN 1 ELSE 2 * Pow2(n - 1)

\* the conversion (double) f of a float, exact; a NaN becomes a quiet NaN
FloatToDouble(f) ==
    LET s == f[1] \div 128
        e == (f[1] % 128) * 2 + (f[2] \div 128)
        m == (f[2] % 128) * 65536 + f[3] * 256 + f[4]
    IN  IF e = 255
        THEN PackDouble(s, 2047, IF m = 0 \/ m >= 4194304 THEN m ELSE m + 4194304)
        ELSE IF e = 0
        THEN IF m = 0
             THEN PackDouble(s, 0, 0)
             ELSE PackDouble(s, 897 - NormShift(m),
                             m * Pow2(NormShift(m)) - 8388608)
        ELSE PackDouble(s, e + 896, m)

\* a C string: the bytes of buf before its first zero byte (all of buf when it has none)
strlen(buf) ==
    LET zeros == {k \in 1..Len(buf) : buf[k] = 0}
    IN  IF zeros = {} THEN Len(buf)
        ELSE (CHOOSE k \in zeros : \A m \in zeros : k <= m) - 1

mkChar(buf) == SubSeq(buf, 1, strlen(buf))

\* strncpy(dst, src, n) into a buffer of n bytes: src, cut or zero padded to n
strncpy(src, n) == [k \in 1..n |-> IF k <= Len(src) THEN src[k] ELSE 0]

\* the decimal digits of a number >= 0, as characters
RECURSIVE Digits(_)
Digits(n) == IF n < 10 THEN <<48 + n>> ELSE Digits(n \div 10) \o <<48 + (n % 10)>>

\* sprintf(buf, "%%%ds", w) into the buffer buf: "%<w>s" and a zero, the rest kept
sprintfS(buf, w) ==
    LET t == <<37>> \o Digits(w) \o <<115, 0>>
    IN  [k \in 1..Len(buf) |-> IF k <= Len(t) THEN t[k] ELSE buf[k]]


(***************************************************************************)
(* Byte swapping and the low-level input and output routines, as functions *)
(* of the bytes read (in file order) or of the value written               *)
(***************************************************************************)
swapd(d) == Reverse(d)

swapi(i) == IntOfBytes(Reverse(BytesOfInt(i)))

\* swapf returns (double) of the reversed float, which its caller stores in a
\* float again: the float's bits, a NaN made quiet
swapf(f) == LET r == Reverse(f)
                e == (r[1] % 128) * 2 + (r[2] \div 128)
                m == (r[2] % 128) * 65536 + r[3] * 256 + r[4]
            IN  IF e = 255 /\ m # 0 /\ r[2] % 128 < 64
                THEN <<r[1], r[2] + 64, r[3], r[4]>>
                ELSE r

InIntegerBinary(mem, naok, swapends) ==
    LET i0 == IntOfBytes(Mem(mem))
        i  == IF swapends THEN swapi(i0) ELSE i0
    IN  IF i = STATA_INT_NA /\ ~naok THEN NA_INTEGER ELSE i

InByteBinary(mem, naok) ==
    IF mem[1] = STATA_BYTE_NA /\ ~naok THEN NA_INTEGER ELSE mem[1]

InShortIntBinary(mem, naok, swapends) ==
    LET first  == InByteBinary(<<mem[1]>>, TRUE)
        second == InByteBinary(<<mem[2]>>, TRUE)
        result == IF stata_endian = LOHI
                  THEN first * 256 + second
                  ELSE second * 256 + first
    IN  IF result = STATA_SHORTINT_NA /\ ~naok THEN NA_INTEGER ELSE result

\* InDoubleBinary with the test for the missing value before the swap
InDoubleBinary_TestFirst(mem, naok, swapends) ==
    LET i0 == Mem(mem)
    IN  IF DoubleEq(i0, STATA_DOUBLE_NA) /\ ~naok THEN NA_REAL
        ELSE IF swapends THEN swapd(i0) ELSE i0

InDoubleBinary(mem, naok, swapends) ==
    LET i0 == Mem(mem)
        i  == IF swapends THEN swapd(i0) ELSE i0
    IN  IF DoubleEq(i, STATA_DOUBLE_NA) /\ ~naok THEN NA_REAL ELSE i

InFloatBinary(mem, naok, swapends) ==
    LET i0 == Mem(mem)
        i  == IF swapends THEN swapf(i0) ELSE i0
    IN  IF DoubleEq(FloatToDouble(i), STATA_FLOAT_NA) /\ ~naok THEN FloatOfNA ELSE i

nameMangle(stataname) ==
    [k \in 1..Len(stataname) |-> IF stataname[k] = 95 THEN 46 ELSE stataname[k]]

OutIntegerBinary(i, naok) ==
    Mem(BytesOfInt(IF i = NA_INTEGER /\ ~naok THEN STATA_INT_NA ELSE i))

OutShortIntBinary(i) ==
    IF endian = LOHI
    THEN << (i \div 256) % 256, i % 256 >>
    ELSE << i % 256, (i \div 256) % 256 >>

\* OutDoubleBinary with the bytes always most significant first, whatever the
\* byte order of the host
OutDoubleBinary_MsbFirst(d, naok) == IF R_FINITE(d) THEN d ELSE STATA_DOUBLE_NA

OutDoubleBinary(d, naok) == Mem(IF R_FINITE(d) THEN d ELSE STATA_DOUBLE_NA)

nameMangleOut(stataname) ==
    [k \in 1..Len(stataname) |-> IF stataname[k] = 46 THEN 95 ELSE stataname[k]]

\* setup_consts: the value of endian on this host
HostEndian ==
    LET x == Mem(DoubleOne)
        word0 == Mem(SubSeq(x, 1, 4))
        word1 == Mem(SubSeq(x, 5, 8))
    IN  IF word0 = <<63, 240, 0, 0>> THEN LOHI
        ELSE IF word1 = <<63, 240, 0, 0>> THEN HILO
        ELSE 0

(***************************************************************************)
(* The state of a call chain                                               *)
(***************************************************************************)
Procs == DOMAIN pc

Globals == <<machine, endian, stata_endian, STATA_FLOAT_NA, STATA_DOUBLE_NA>>

\* no data frame
NoDf == [class |-> "none", cols |-> <<>>, names |-> <<>>, datalabel |-> <<>>,
         timestamp |-> <<>>, formats |-> <<>>, varlabels |-> <<>>, rownames |-> <<>>]

\* the locals of R_LoadStataData before the call
LdInit == [version5 |-> 0, swapends |-> 0, abyte |-> 0, nvar |-> 0, nobs |-> 0,
           charlen |-> 0, i |-> 0, j |-> 0, datalabel |-> Zeros(81),
           timestamp |-> Zeros(18), aname |-> Zeros(9), types |-> <<>>,
           names |-> <<>>, formats |-> <<>>, varlabels |-> <<>>, df |-> NoDf]

\* the locals of R_SaveStataData before the call
SvInit == [i |-> 0, j |-> 0, k |-> 0, l |-> 0, nvar |-> 0, nobs |-> 0, charlen |-> 0,
           datalabel |-> Zeros(81), timestamp |-> Zeros(18), aname |-> Zeros(9),
           strformat |-> Zeros(12), types |-> <<>>]

RetInit == [fn |-> "none", wire |-> <<>>, naok |-> FALSE, ival |-> 0, rval |-> <<>>]

OutInit == [status |-> "none", msg |-> "", value |-> NoDf]

\* error(msg): control leaves the call at once (a longjmp to R's top level),
\* and the calls that were to follow are not made
Raise(p, msg) ==
    /\ pc' = [pc EXCEPT ![p] = "idle"]
    /\ out' = [out EXCEPT ![p] = [status |-> "error", msg |-> msg, value |-> NoDf]]
    /\ job' = [job EXCEPT ![p].calls = <<>>]

\* fread(buf, n, 1, fp) = 1: n bytes are there (and n is not 0)
ReadOK(p, n) == n > 0 /\ fp[p].pos + n <= Len(fp[p].bytes)

\* the next n bytes of the stream
Bytes(p, n) == SubSeq(fp[p].bytes, fp[p].pos + 1, fp[p].pos + n)

Advance(p, n) == [fp EXCEPT ![p].pos = @ + n]

\* a short read: what was left is consumed, and the error is raised
ReadError(p) ==
    /\ fp' = [fp EXCEPT ![p].pos = Len(fp[p].bytes)]
    /\ Raise(p, "a binary read error occured")

Returns(p, fn, wire, naok, ival, rval) ==
    [ret EXCEPT ![p] = [fn |-> fn, wire |-> wire, naok |-> naok,
                        ival |-> ival, rval |-> rval]]

(***************************************************************************)
(* do_readStata and R_LoadStataData                                        *)
(***************************************************************************)
\* the loops of R_LoadStataData between the header and the characteristics
LoadOrder == <<"l_types", "l_names", "l_sortlist", "l_formats", "l_vallabels",
               "l_varlabels", "l_chartype">>

LoopCount(ph, nvar) ==
    IF ph = "l_chartype" \/ ph = "s_chars" THEN 1
    ELSE IF ph = "l_sortlist" \/ ph = "s_sortlist" THEN 2 * (nvar + 1)
    ELSE nvar

RECURSIVE LoadGoto(_, _)
\* the first of the loops from the k-th on whose body runs at all
LoadGoto(k, nvar) ==
    IF LoopCount(LoadOrder[k], nvar) > 0 THEN LoadOrder[k] ELSE LoadGoto(k + 1, nvar)

\* after iteration number i1 of the k-th loop
LoadAfter(k, i1, nvar) ==
    IF i1 < LoopCount(LoadOrder[k], nvar) THEN LoadOrder[k] ELSE LoadGoto(k + 1, nvar)

LoadAfterI(k, i1, nvar) == IF i1 < LoopCount(LoadOrder[k], nvar) THEN i1 ELSE 0

\* the label width of version 6 for every file
LabelWidth_Long(version5) == 81

\* the label width of the file's version
LabelWidth(version5) == IF version5 = 1 THEN 32 ELSE 81

\* fopen(..., "rb"): the stream is open at the start of the file, or NULL
ReadOpen(p) ==
    /\ pc[p] = "idle"
    /\ job[p].calls # <<>>
    /\ Head(job[p].calls) = "read"
    /\ \E opened \in BOOLEAN :
          IF opened
          THEN /\ fp' = [fp EXCEPT ![p].pos = 0, ![p].open = TRUE]
               /\ pc' = [pc EXCEPT ![p] = "l_setup"]
               /\ out' = [out EXCEPT ![p] = OutInit]
               /\ ld' = [ld EXCEPT ![p] = LdInit]
               /\ UNCHANGED job
          ELSE /\ Raise(p, "unable to open file")
               /\ UNCHANGED <<fp, ld>>
    /\ UNCHANGED <<Globals, sv, ret>>

\* setup_consts()
LoadSetup(p) ==
    /\ pc[p] = "l_setup"
    /\ endian' = HostEndian
    /\ STATA_FLOAT_NA' = Pow2_127
    /\ STATA_DOUBLE_NA' = Pow2_1023
    /\ pc' = [pc EXCEPT ![p] = "l_version"]
    /\ UNCHANGED <<machine, stata_endian, fp, ld, sv, ret, out, job>>

\* a switch on the release version without the default case
VersionKnown_Any(abyte) == TRUE

\* the cases of the switch on the release version that are no error
VersionKnown(abyte) == abyte = VERSION_5 \/ abyte = VERSION_6

\* abyte = InByteBinary(fp,1) and the switch on the release version
LoadVersion(p) ==
    /\ pc[p] = "l_version"
    /\ IF ReadOK(p, 1)
       THEN LET abyte == InByteBinary(Bytes(p, 1), TRUE)
            IN  /\ fp' = Advance(p, 1)
                /\ ret' = Returns(p, "InByteBinary", Bytes(p, 1), TRUE, abyte, <<>>)
                /\ IF VersionKnown(abyte)
                   THEN /\ ld' = [ld EXCEPT ![p].abyte = abyte,
                                            ![p].version5 = IF abyte = VERSION_5 THEN 1 ELSE 0]
                        /\ pc' = [pc EXCEPT ![p] = "l_byteorder"]
                        /\ UNCHANGED <<out, job>>
                   ELSE /\ Raise(p, "Not a Stata v5 or v6 file")
                        /\ ld' = [ld EXCEPT ![p].abyte = abyte]
       ELSE /\ ReadError(p)
            /\ UNCHANGED <<ld, ret>>
    /\ UNCHANGED <<Globals, sv>>

\* stata_endian = InByteBinary(fp,1); swapends = (endian != stata_endian)
LoadByteOrder(p) ==
    /\ pc[p] = "l_byteorder"
    /\ IF ReadOK(p, 1)
       THEN LET b == InByteBinary(Bytes(p, 1), TRUE)
            IN  /\ fp' = Advance(p, 1)
                /\ ret' = Returns(p, "InByteBinary", Bytes(p, 1), TRUE, b, <<>>)
                /\ stata_endian' = b
                /\ ld' = [ld EXCEPT ![p].swapends = IF endian # b THEN 1 ELSE 0]
                /\ pc' = [pc EXCEPT ![p] = "l_filetype"]
                /\ UNCHANGED <<out, job>>
       ELSE /\ ReadError(p)
            /\ UNCHANGED <<ld, ret, stata_endian>>
    /\ UNCHANGED <<machine, endian, STATA_FLOAT_NA, STATA_DOUBLE_NA, sv>>

\* InByteBinary(fp,1) twice: the file type and the padding, both dropped
LoadJunk(p) ==
    /\ pc[p] \in {"l_filetype", "l_padding"}
    /\ IF ReadOK(p, 1)
       THEN /\ fp' = Advance(p, 1)
            /\ ret' = Returns(p, "InByteBinary", Bytes(p, 1), TRUE,
                              InByteBinary(Bytes(p, 1), TRUE), <<>>)
            /\ pc' = [pc EXCEPT ![p] = IF @ = "l_filetype" THEN "l_padding" ELSE "l_nvar"]
            /\ UNCHANGED <<out, job>>
       ELSE /\ ReadError(p)
            /\ UNCHANGED ret
    /\ UNCHANGED <<Globals, ld, sv>>

\* nvar = InShortIntBinary(fp,1,swapends)
LoadNvar(p) ==
    /\ pc[p] = "l_nvar"
    /\ IF ReadOK(p, 2)
       THEN LET v == InShortIntBinary(Bytes(p, 2), TRUE, ld[p].swapends = 1)
            IN  /\ fp' = Advance(p, 2)
                /\ ret' = Returns(p, "InShortIntBinary", Bytes(p, 2), TRUE, v, <<>>)
                /\ ld' = [ld EXCEPT ![p].nvar = v]
                /\ pc' = [pc EXCEPT ![p] = "l_nobs"]
                /\ UNCHANGED <<out, job>>
       ELSE /\ ReadError(p)
            /\ UNCHANGED <<ld, ret>>
    /\ UNCHANGED <<Globals, sv>>

\* nobs = InIntegerBinary(fp,1,swapends)
LoadNobs(p) ==
    /\ pc[p] = "l_nobs"
    /\ IF ReadOK(p, 4)
       THEN LET v == InIntegerBinary(Bytes(p, 4), TRUE, ld[p].swapends = 1)
            IN  /\ fp' = Advance(p, 4)
                /\ ret' = Returns(p, "InIntegerBinary", Bytes(p, 4), TRUE, v, <<>>)
                /\ ld' = [ld EXCEPT ![p].nobs = v]
                /\ pc' = [pc EXCEPT ![p] = "l_datalabel"]
                /\ UNCHANGED <<out, job>>
       ELSE /\ ReadError(p)
            /\ UNCHANGED <<ld, ret>>
    /\ UNCHANGED <<Globals, sv>>

\* a buffer after InStringBinary(fp, n, buf): its first n bytes are the bytes read
Filled(buf, mem) == [k \in 1..Len(buf) |-> IF k <= Len(mem) THEN mem[k] ELSE buf[k]]

\* InStringBinary(fp, 32 or 81, datalabel)
LoadDataLabel(p) ==
    /\ pc[p] = "l_datalabel"
    /\ LET n == LabelWidth(ld[p].version5)
       IN  IF ReadOK(p, n)
           THEN /\ fp' = Advance(p, n)
                /\ ld' = [ld EXCEPT ![p].datalabel = Filled(@, Bytes(p, n))]
                /\ pc' = [pc EXCEPT ![p] = "l_timestamp"]
                /\ UNCHANGED <<out, job>>
           ELSE /\ ReadError(p)
                /\ UNCHANGED ld
    /\ UNCHANGED <<Globals, sv, ret>>

\* InStringBinary(fp,18,timestamp); df is allocated and gets its two labels
LoadTimestamp(p) ==
    /\ pc[p] = "l_timestamp"
    /\ IF ReadOK(p, 18)
       THEN LET ts == Filled(ld[p].timestamp, Bytes(p, 18))
            IN  /\ fp' = Advance(p, 18)
                /\ ld' = [ld EXCEPT ![p].timestamp = ts,
                                    ![p].df = [NoDf EXCEPT !.datalabel = mkChar(ld[p].datalabel),
                                                           !.timestamp = mkChar(ts)],
                                    ![p].i = 0]
                /\ pc' = [pc EXCEPT ![p] = LoadGoto(1, ld[p].nvar)]
                /\ UNCHANGED <<out, job>>
       ELSE /\ ReadError(p)
            /\ UNCHANGED ld
    /\ UNCHANGED <<Globals, sv, ret>>

\* ColumnKind with the test abyte <= STATA_STRINGOFFSET for the unknown tags
ColumnKind_OffByOne(abyte) ==
    IF abyte = STATA_FLOAT \/ abyte = STATA_DOUBLE THEN "REALSXP"
    ELSE IF abyte = STATA_INT \/ abyte = STATA_SHORTINT \/ abyte = STATA_BYTE THEN "INTSXP"
    ELSE IF abyte <= STATA_STRINGOFFSET THEN "none"
    ELSE "STRSXP"

\* the R vector type allocated for a type tag; "none" for an unknown tag
ColumnKind(abyte) ==
    IF abyte = STATA_FLOAT \/ abyte = STATA_DOUBLE THEN "REALSXP"
    ELSE IF abyte = STATA_INT \/ abyte = STATA_SHORTINT \/ abyte = STATA_BYTE THEN "INTSXP"
    ELSE IF abyte < STATA_STRINGOFFSET THEN "none"
    ELSE "STRSXP"

\* one round of the types loop: a type tag, and the column allocated for it
LoadType(p) ==
    /\ pc[p] = "l_types"
    /\ IF ReadOK(p, 1)
       THEN LET abyte == InByteBinary(Bytes(p, 1), TRUE)
                kind  == ColumnKind(abyte)
            IN  /\ fp' = Advance(p, 1)
                /\ ret' = Returns(p, "InByteBinary", Bytes(p, 1), TRUE, abyte, <<>>)
                /\ IF kind = "none"
                   THEN /\ Raise(p, "Unknown data type")
                        /\ ld' = [ld EXCEPT ![p].abyte = abyte,
                                            ![p].types = Append(@, abyte)]
                   ELSE /\ ld' = [ld EXCEPT
                                    ![p].abyte = abyte,
                                    ![p].types = Append(@, abyte),
                                    ![p].df.cols = Append(@, [type |-> kind, cells |-> <<>>]),
                                    ![p].i = LoadAfterI(1, @ + 1, ld[p].nvar)]
                        /\ pc' = [pc EXCEPT ![p] = LoadAfter(1, ld[p].i + 1, ld[p].nvar)]
                        /\ UNCHANGED <<out, job>>
       ELSE /\ ReadError(p)
            /\ UNCHANGED <<ld, ret>>
    /\ UNCHANGED <<Globals, sv>>

\* one round of the names loop
LoadName(p) ==
    /\ pc[p] = "l_names"
    /\ IF ReadOK(p, 9)
       THEN LET aname == nameMangle(Filled(ld[p].aname, Bytes(p, 9)))
            IN  /\ fp' = Advance(p, 9)
                /\ ld' = [ld EXCEPT ![p].aname = aname,
                                    ![p].names = Append(@, mkChar(aname)),
                                    ![p].i = LoadAfterI(2, @ + 1, ld[p].nvar)]
                /\ pc' = [pc EXCEPT ![p] = LoadAfter(2, ld[p].i + 1, ld[p].nvar)]
                /\ UNCHANGED <<out, job>>
       ELSE /\ ReadError(p)
            /\ UNCHANGED ld
    /\ UNCHANGED <<Globals, sv, ret>>

\* one round of the sortlist loop: a byte, dropped
LoadSortlist(p) ==
    /\ pc[p] = "l_sortlist"
    /\ IF ReadOK(p, 1)
       THEN /\ fp' = Advance(p, 1)
            /\ ret' = Returns(p, "InByteBinary", Bytes(p, 1), TRUE,
                              InByteBinary(Bytes(p, 1), TRUE), <<>>)
            /\ ld' = [ld EXCEPT ![p].i = LoadAfterI(3, @ + 1, ld[p].nvar)]
            /\ pc' = [pc EXCEPT ![p] = LoadAfter(3, ld[p].i + 1, ld[p].nvar)]
            /\ UNCHANGED <<out, job>>
       ELSE /\ ReadError(p)
            /\ UNCHANGED <<ld, ret>>
    /\ UNCHANGED <<Globals, sv>>

\* one round of the formats loop: 12 bytes, read into timestamp
LoadFormat(p) ==
    /\ pc[p] = "l_formats"
    /\ IF ReadOK(p, 12)
       THEN LET ts == Filled(ld[p].timestamp, Bytes(p, 12))
            IN  /\ fp' = Advance(p, 12)
                /\ ld' = [ld EXCEPT ![p].timestamp = ts,
                                    ![p].formats = Append(@, mkChar(ts)),
                                    ![p].i = LoadAfterI(4, @ + 1, ld[p].nvar)]
                /\ pc' = [pc EXCEPT ![p] = LoadAfter(4, ld[p].i + 1, ld[p].nvar)]
                /\ UNCHANGED <<out, job>>
       ELSE /\ ReadError(p)
            /\ UNCHANGED ld
    /\ UNCHANGED <<Globals, sv, ret>>

\* one round of the value label loop: 9 bytes into aname, not used
LoadValueLabel(p) ==
    /\ pc[p] = "l_vallabels"
    /\ IF ReadOK(p, 9)
       THEN /\ fp' = Advance(p, 9)
            /\ ld' = [ld EXCEPT ![p].aname = Filled(@, Bytes(p, 9)),
                                ![p].i = LoadAfterI(5, @ + 1, ld[p].nvar)]
            /\ pc' = [pc EXCEPT ![p] = LoadAfter(5, ld[p].i + 1, ld[p].nvar)]
            /\ UNCHANGED <<out, job>>
       ELSE /\ ReadError(p)
            /\ UNCHANGED ld
    /\ UNCHANGED <<Globals, sv, ret>>

\* one round of the variable label loop: 32 or 81 bytes into datalabel
LoadVarLabel(p) ==
    /\ pc[p] = "l_varlabels"
    /\ LET n == LabelWidth(ld[p].version5)
       IN  IF ReadOK(p, n)
           THEN LET dl == Filled(ld[p].datalabel, Bytes(p, n))
                IN  /\ fp' = Advance(p, n)
                    /\ ld' = [ld EXCEPT ![p].datalabel = dl,
                                        ![p].varlabels = Append(@, mkChar(dl)),
                                        ![p].i = LoadAfterI(6, @ + 1, ld[p].nvar)]
                    /\ pc' = [pc EXCEPT ![p] = LoadAfter(6, ld[p].i + 1, ld[p].nvar)]
                    /\ UNCHANGED <<out, job>>
           ELSE /\ ReadError(p)
                /\ UNCHANGED ld
    /\ UNCHANGED <<Globals, sv, ret>>

\* the test of while(InByteBinary(fp,1))
LoadCharType(p) ==
    /\ pc[p] = "l_chartype"
    /\ IF ReadOK(p, 1)
       THEN LET b == InByteBinary(Bytes(p, 1), TRUE)
            IN  /\ fp' = Advance(p, 1)
                /\ ret' = Returns(p, "InByteBinary", Bytes(p, 1), TRUE, b, <<>>)
                /\ pc' = [pc EXCEPT ![p] = IF b # 0 THEN "l_charlen" ELSE "l_termlen"]
                /\ UNCHANGED <<out, job>>
       ELSE /\ ReadError(p)
            /\ UNCHANGED ret
    /\ UNCHANGED <<Globals, ld, sv>>

\* charlen = InShortIntBinary(fp,1,swapends) in the loop; i = 0
LoadCharLen(p) ==
    /\ pc[p] = "l_charlen"
    /\ IF ReadOK(p, 2)
       THEN LET v == InShortIntBinary(Bytes(p, 2), TRUE, ld[p].swapends = 1)
            IN  /\ fp' = Advance(p, 2)
                /\ ret' = Returns(p, "InShortIntBinary", Bytes(p, 2), TRUE, v, <<>>)
                /\ ld' = [ld EXCEPT ![p].charlen = v, ![p].i = 0]
                /\ pc' = [pc EXCEPT ![p] = IF 0 < v THEN "l_charskip" ELSE "l_chartype"]
                /\ UNCHANGED <<out, job>>
       ELSE /\ ReadError(p)
            /\ UNCHANGED <<ld, ret>>
    /\ UNCHANGED <<Globals, sv>>

\* one round of for (i=0;i<charlen;i++) InByteBinary(fp,1)
LoadCharSkip(p) ==
    /\ pc[p] = "l_charskip"
    /\ IF ReadOK(p, 1)
       THEN /\ fp' = Advance(p, 1)
            /\ ret' = Returns(p, "InByteBinary", Bytes(p, 1), TRUE,
                              InByteBinary(Bytes(p, 1), TRUE), <<>>)
            /\ ld' = [ld EXCEPT ![p].i = @ + 1]
            /\ pc' = [pc EXCEPT ![p] = IF ld[p].i + 1 < ld[p].charlen
                                       THEN "l_charskip" ELSE "l_chartype"]
            /\ UNCHANGED <<out, job>>
       ELSE /\ ReadError(p)
            /\ UNCHANGED <<ld, ret>>
    /\ UNCHANGED <<Globals, sv>>

\* a test of the last length that never fails
TermLenBad_Never(charlen) == FALSE

\* if (charlen!=0) error(...): the length after the characteristics is not 0
TermLenBad(charlen) == charlen # 0

\* charlen = InShortIntBinary(fp,1,swapends) after the loop, which must be 0
LoadTermLen(p) ==
    /\ pc[p] = "l_termlen"
    /\ IF ReadOK(p, 2)
       THEN LET v == InShortIntBinary(Bytes(p, 2), TRUE, ld[p].swapends = 1)
            IN  /\ fp' = Advance(p, 2)
                /\ ret' = Returns(p, "InShortIntBinary", Bytes(p, 2), TRUE, v, <<>>)
                /\ IF TermLenBad(v)
                   THEN /\ Raise(p, "Something strange in the file")
                        /\ ld' = [ld EXCEPT ![p].charlen = v]
                   ELSE /\ ld' = [ld EXCEPT ![p].charlen = v, ![p].i = 0, ![p].j = 0]
                        /\ pc' = [pc EXCEPT ![p] =
                                     IF 0 < ld[p].nobs /\ 0 < ld[p].nvar
                                     THEN "l_data" ELSE "l_finish"]
                        /\ UNCHANGED <<out, job>>
       ELSE /\ ReadError(p)
            /\ UNCHANGED <<ld, ret>>
    /\ UNCHANGED <<Globals, sv>>

\* the bytes one cell of a column takes in the data
CellWidth(type) ==
    IF type = STATA_FLOAT THEN 4
    ELSE IF type = STATA_DOUBLE THEN 8
    ELSE IF type = STATA_INT THEN 4
    ELSE IF type = STATA_SHORTINT THEN 2
    ELSE IF type = STATA_BYTE THEN 1
    ELSE type - STATA_STRINGOFFSET

\* the In*Binary routine that reads a cell of a column
CellReader(type) ==
    IF type = STATA_FLOAT THEN "InFloatBinary"
    ELSE IF type = STATA_DOUBLE THEN "InDoubleBinary"
    ELSE IF type = STATA_INT THEN "InIntegerBinary"
    ELSE IF type = STATA_SHORTINT THEN "InShortIntBinary"
    ELSE IF type = STATA_BYTE THEN "InByteBinary"
    ELSE "InStringBinary"

\* the value a cell gets from its bytes
CellValue(type, mem, swapends) ==
    IF type = STATA_FLOAT THEN FloatToDouble(InFloatBinary(mem, FALSE, swapends))
    ELSE IF type = STATA_DOUBLE THEN InDoubleBinary(mem, FALSE, swapends)
    ELSE IF type = STATA_INT THEN InIntegerBinary(mem, FALSE, swapends)
    ELSE IF type = STATA_SHORTINT THEN InShortIntBinary(mem, FALSE, swapends)
    ELSE IF type = STATA_BYTE THEN InByteBinary(mem, FALSE)
    ELSE mkChar(mem)

\* one round of the data loops: cell i of column j
LoadCell(p) ==
    /\ pc[p] = "l_data"
    /\ LET r    == ld[p]
           type == r.types[r.j + 1]
           n    == CellWidth(type)
       IN  IF ReadOK(p, n)
           THEN LET mem  == Bytes(p, n)
                    v    == CellValue(type, mem, r.swapends = 1)
                    last == r.j + 1 = r.nvar
                    i1   == IF last THEN r.i + 1 ELSE r.i
                IN  /\ fp' = Advance(p, n)
                    /\ ret' = Returns(p, CellReader(type), mem, FALSE,
                                      IF ColumnKind(type) = "INTSXP" THEN v ELSE 0,
                                      IF type = STATA_FLOAT
                                      THEN InFloatBinary(mem, FALSE, r.swapends = 1)
                                      ELSE IF type = STATA_DOUBLE THEN v ELSE <<>>)
                    /\ ld' = [ld EXCEPT ![p].df.cols[r.j + 1].cells = Append(@, v),
                                        ![p].charlen = IF ColumnKind(type) = "STRSXP"
                                                       THEN n ELSE @,
                                        ![p].j = IF last THEN 0 ELSE r.j + 1,
                                        ![p].i = i1]
                    /\ pc' = [pc EXCEPT ![p] = IF i1 < r.nobs THEN "l_data" ELSE "l_finish"]
                    /\ UNCHANGED <<out, job>>
           ELSE /\ ReadError(p)
                /\ UNCHANGED <<ld, ret>>
    /\ UNCHANGED <<Globals, sv>>

\* the class and the row names; R_LoadStataData returns df
LoadFinish(p) ==
    /\ pc[p] = "l_finish"
    /\ ld' = [ld EXCEPT ![p].df = [@ EXCEPT
                  !.class = "data.frame",
                  !.names = ld[p].names,
                  !.formats = ld[p].formats,
                  !.varlabels = ld[p].varlabels,
                  !.rownames = [k \in 1..ld[p].nobs |-> Digits(k)]]]
    /\ pc' = [pc EXCEPT ![p] = "r_close"]
    /\ UNCHANGED <<Globals, fp, sv, ret, out, job>>

\* fclose(fp); return result
ReadClose(p) ==
    /\ pc[p] = "r_close"
    /\ fp' = [fp EXCEPT ![p].open = FALSE]
    /\ out' = [out EXCEPT ![p] = [status |-> "ok", msg |-> "", value |-> ld[p].df]]
    /\ pc' = [pc EXCEPT ![p] = "idle"]
    /\ job' = [job EXCEPT ![p].calls = Tail(@)]
    /\ UNCHANGED <<Globals, ld, sv, ret>>

(***************************************************************************)
(* do_writeStata and R_SaveStataData                                       *)
(***************************************************************************)
\* char datalabel[81]="Written by R.              "
WrittenByR ==
    <<87, 114, 105, 116, 116, 101, 110, 32, 98, 121, 32, 82, 46>> \o [k \in 1..14 |-> 32]
    \o Zeros(54)

\* char format9g[12]="%9.0g"
format9g == <<37, 57, 46, 48, 103>> \o Zeros(7)

SaveOrder == <<"s_types", "s_names", "s_sortlist", "s_formats", "s_vallabels",
               "s_varlabels", "s_chars">>

RECURSIVE SaveGoto(_, _)
SaveGoto(k, nvar) ==
    IF LoopCount(SaveOrder[k], nvar) > 0 THEN SaveOrder[k] ELSE SaveGoto(k + 1, nvar)

SaveAfter(k, i1, nvar) ==
    IF i1 < LoopCount(SaveOrder[k], nvar) THEN SaveOrder[k] ELSE SaveGoto(k + 1, nvar)

SaveAfterI(k, i1, nvar) == IF i1 < LoopCount(SaveOrder[k], nvar) THEN i1 ELSE 0

\* the stream after fwrite has written mem
Put(p, mem) == [fp EXCEPT ![p].bytes = @ \o mem, ![p].pos = @ + Len(mem)]

\* fwrite(buf, n, 1, fp) = 1: the device took the bytes (and n is not 0)
WriteOK(n, taken) == n > 0 /\ taken

WriteError(p) ==
    /\ Raise(p, "a binary write error occured")
    /\ UNCHANGED fp

\* fopen(..., "wb"), and the test that df is a data frame
WriteOpen(p) ==
    /\ pc[p] = "idle"
    /\ job[p].calls # <<>>
    /\ Head(job[p].calls) = "write"
    /\ \E opened \in BOOLEAN :
          IF opened
          THEN /\ fp' = [fp EXCEPT ![p] = [bytes |-> <<>>, pos |-> 0, open |-> TRUE]]
               /\ IF job[p].df.class = "data.frame"
                  THEN /\ pc' = [pc EXCEPT ![p] = "s_setup"]
                       /\ out' = [out EXCEPT ![p] = OutInit]
                       /\ sv' = [sv EXCEPT ![p] = [SvInit EXCEPT !.datalabel = WrittenByR]]
                       /\ UNCHANGED job
                  ELSE /\ Raise(p, "data to be saved must be in a data frame.")
                       /\ UNCHANGED sv
          ELSE /\ Raise(p, "unable to open file")
               /\ UNCHANGED <<fp, sv>>
    /\ UNCHANGED <<Globals, ld, ret>>

\* setup_consts()
SaveSetup(p) ==
    /\ pc[p] = "s_setup"
    /\ endian' = HostEndian
    /\ STATA_FLOAT_NA' = Pow2_127
    /\ STATA_DOUBLE_NA' = Pow2_1023
    /\ pc' = [pc EXCEPT ![p] = "s_release"]
    /\ UNCHANGED <<machine, stata_endian, fp, ld, sv, ret, out, job>>

\* the four OutByteBinary of the header: release, byte order, file type, padding
SaveHeaderByte(p) ==
    /\ pc[p] \in {"s_release", "s_endian", "s_filetype", "s_padding"}
    /\ \E taken \in BOOLEAN :
          IF WriteOK(1, taken)
          THEN /\ fp' = Put(p, << CASE pc[p] = "s_release" -> 108
                                    [] pc[p] = "s_endian" -> endian % 256
                                    [] pc[p] = "s_filetype" -> 1
                                    [] OTHER -> 0 >>)
               /\ pc' = [pc EXCEPT ![p] = CASE @ = "s_release" -> "s_endian"
                                            [] @ = "s_endian" -> "s_filetype"
                                            [] @ = "s_filetype" -> "s_padding"
                                            [] OTHER -> "s_nvar"]
               /\ UNCHANGED <<out, job>>
          ELSE WriteError(p)
    /\ UNCHANGED <<Globals, ld, sv, ret>>

\* nvar=length(df); OutShortIntBinary(nvar,fp)
SaveNvar(p) ==
    /\ pc[p] = "s_nvar"
    /\ \E taken \in BOOLEAN :
          IF WriteOK(2, taken)
          THEN /\ fp' = Put(p, OutShortIntBinary(Len(job[p].df.cols)))
               /\ sv' = [sv EXCEPT ![p].nvar = Len(job[p].df.cols)]
               /\ pc' = [pc EXCEPT ![p] = "s_nobs"]
               /\ UNCHANGED <<out, job>>
          ELSE /\ WriteError(p)
               /\ sv' = [sv EXCEPT ![p].nvar = Len(job[p].df.cols)]
    /\ UNCHANGED <<Globals, ld, ret>>

\* nobs=length(VECTOR_ELT(df,0)); OutIntegerBinary(nobs,fp,1)
SaveNobs(p) ==
    /\ pc[p] = "s_nobs"
    /\ LET nobs == Len(job[p].df.cols[1].cells)
       IN  \E taken \in BOOLEAN :
              /\ sv' = [sv EXCEPT ![p].nobs = nobs]
              /\ IF WriteOK(4, taken)
                 THEN /\ fp' = Put(p, OutIntegerBinary(nobs, TRUE))
                      /\ pc' = [pc EXCEPT ![p] = "s_datalabel"]
                      /\ UNCHANGED <<out, job>>
                 ELSE WriteError(p)
    /\ UNCHANGED <<Globals, ld, ret>>

\* OutStringBinary(datalabel,fp,81)
SaveDataLabel(p) ==
    /\ pc[p] = "s_datalabel"
    /\ \E taken \in BOOLEAN :
          IF WriteOK(81, taken)
          THEN /\ fp' = Put(p, sv[p].datalabel)
               /\ pc' = [pc EXCEPT ![p] = "s_timestamp"]
               /\ UNCHANGED <<out, job>>
          ELSE WriteError(p)
    /\ UNCHANGED <<Globals, ld, sv, ret>>

\* timestamp is zeroed and written; types is allocated
SaveTimestamp(p) ==
    /\ pc[p] = "s_timestamp"
    /\ \E taken \in BOOLEAN :
          /\ sv' = [sv EXCEPT ![p].timestamp = Zeros(18), ![p].i = 0,
                              ![p].types = Zeros(sv[p].nvar)]
          /\ IF WriteOK(18, taken)
             THEN /\ fp' = Put(p, Zeros(18))
                  /\ pc' = [pc EXCEPT ![p] = SaveGoto(1, sv[p].nvar)]
                  /\ UNCHANGED <<out, job>>
             ELSE WriteError(p)
    /\ UNCHANGED <<Globals, ld, ret>>

RECURSIVE MaxCellLen(_, _)
\* charlen after the loop over the first n cells of a string column
MaxCellLen(cells, n) ==
    IF n = 0 THEN 0
    ELSE LET m == MaxCellLen(cells, n - 1)
         IN  IF Len(cells[n]) > m THEN Len(cells[n]) ELSE m

\* k after the loop over the cells of a string column: the length of the last
\* cell, or k as it was when there is no cell
LastCellLen(cells, k) == IF cells = <<>> THEN k ELSE Len(cells[Len(cells)])

\* the width R_SaveStataData gives a string column: it writes k + 0x7f as the
\* type and keeps k in types[i]
StringWidth(cells, k) == LastCellLen(cells, k)

\* the type byte of a column; -1 for a column that is no logical, integer,
\* real or string vector
TypeByte(col, k) ==
    IF col.type = "LGLSXP" \/ col.type = "INTSXP" THEN STATA_INT
    ELSE IF col.type = "REALSXP" THEN STATA_DOUBLE
    ELSE IF col.type = "STRSXP"
         THEN (StringWidth(col.cells, k) + STATA_STRINGOFFSET) % 256
    ELSE -1

\* one round of the types loop
SaveType(p) ==
    /\ pc[p] = "s_types"
    /\ LET r   == sv[p]
           col == job[p].df.cols[r.i + 1]
           str == col.type = "STRSXP"
           k   == IF str THEN StringWidth(col.cells, r.k) ELSE r.k
           loc == [r EXCEPT !.k = k,
                            !.j = IF str THEN r.nobs ELSE @,
                            !.charlen = IF str THEN MaxCellLen(col.cells, Len(col.cells))
                                        ELSE @]
       IN  IF TypeByte(col, r.k) = -1
           THEN /\ Raise(p, "Unknown data type")
                /\ UNCHANGED <<fp, sv>>
           ELSE \E taken \in BOOLEAN :
                   IF WriteOK(1, taken)
                   THEN /\ fp' = Put(p, <<TypeByte(col, r.k)>>)
                        /\ sv' = [sv EXCEPT ![p] =
                                    [loc EXCEPT !.types[r.i + 1] = IF str THEN k ELSE @,
                                                !.i = SaveAfterI(1, r.i + 1, r.nvar)]]
                        /\ pc' = [pc EXCEPT ![p] = SaveAfter(1, r.i + 1, r.nvar)]
                        /\ UNCHANGED <<out, job>>
                   ELSE /\ WriteError(p)
                        /\ sv' = [sv EXCEPT ![p] = loc]
    /\ UNCHANGED <<Globals, ld, ret>>

\* one round of the names loop: 8 bytes of the mangled name and a zero byte
SaveName(p) ==
    /\ pc[p] = "s_names"
    /\ LET r     == sv[p]
           aname == nameMangleOut(strncpy(job[p].df.names[r.i + 1], 8)) \o <<r.aname[9]>>
       IN  \E taken \in BOOLEAN :
              IF WriteOK(8, taken)
              THEN /\ fp' = Put(p, SubSeq(aname, 1, 8) \o <<0>>)
                   /\ sv' = [sv EXCEPT ![p].aname = aname,
                                       ![p].i = SaveAfterI(2, r.i + 1, r.nvar)]
                   /\ pc' = [pc EXCEPT ![p] = SaveAfter(2, r.i + 1, r.nvar)]
                   /\ UNCHANGED <<out, job>>
              ELSE /\ WriteError(p)
                   /\ sv' = [sv EXCEPT ![p].aname = aname]
    /\ UNCHANGED <<Globals, ld, ret>>

\* one round of the sortlist loop: a zero byte
SaveSortlist(p) ==
    /\ pc[p] = "s_sortlist"
    /\ \E taken \in BOOLEAN :
          IF WriteOK(1, taken)
          THEN /\ fp' = Put(p, <<0>>)
               /\ sv' = [sv EXCEPT ![p].i = SaveAfterI(3, @ + 1, sv[p].nvar)]
               /\ pc' = [pc EXCEPT ![p] = SaveAfter(3, sv[p].i + 1, sv[p].nvar)]
               /\ UNCHANGED <<out, job>>
          ELSE /\ WriteError(p)
               /\ UNCHANGED sv
    /\ UNCHANGED <<Globals, ld, ret>>

\* one round of the format loop: "%<types[i]>s" for a string column, else "%9.0g"
SaveFormat(p) ==
    /\ pc[p] = "s_formats"
    /\ LET r   == sv[p]
           str == job[p].df.cols[r.i + 1].type = "STRSXP"
           strformat == IF str THEN sprintfS(r.strformat, r.types[r.i + 1])
                        ELSE r.strformat
       IN  \E taken \in BOOLEAN :
              IF WriteOK(12, taken)
              THEN /\ fp' = Put(p, IF str THEN strformat ELSE format9g)
                   /\ sv' = [sv EXCEPT ![p].strformat = strformat,
                                       ![p].i = SaveAfterI(4, r.i + 1, r.nvar)]
                   /\ pc' = [pc EXCEPT ![p] = SaveAfter(4, r.i + 1, r.nvar)]
                   /\ UNCHANGED <<out, job>>
              ELSE /\ WriteError(p)
                   /\ sv' = [sv EXCEPT ![p].strformat = strformat]
    /\ UNCHANGED <<Globals, ld, ret>>

\* one round of the value label loop: 9 zero bytes from aname
SaveValueLabel(p) ==
    /\ pc[p] = "s_vallabels"
    /\ \E taken \in BOOLEAN :
          /\ sv' = [sv EXCEPT ![p].aname = Zeros(9),
                              ![p].i = IF taken THEN SaveAfterI(5, @ + 1, sv[p].nvar) ELSE @]
          /\ IF WriteOK(9, taken)
             THEN /\ fp' = Put(p, Zeros(9))
                  /\ pc' = [pc EXCEPT ![p] = SaveAfter(5, sv[p].i + 1, sv[p].nvar)]
                  /\ UNCHANGED <<out, job>>
             ELSE WriteError(p)
    /\ UNCHANGED <<Globals, ld, ret>>

\* one round of the variable label loop: the column's name in 81 bytes
SaveVarLabel(p) ==
    /\ pc[p] = "s_varlabels"
    /\ LET r  == sv[p]
           dl == [strncpy(job[p].df.names[r.i + 1], 81) EXCEPT ![81] = 0]
       IN  \E taken \in BOOLEAN :
              IF WriteOK(81, taken)
              THEN /\ fp' = Put(p, dl)
                   /\ sv' = [sv EXCEPT ![p].datalabel = dl,
                                       ![p].i = SaveAfterI(6, r.i + 1, r.nvar)]
                   /\ pc' = [pc EXCEPT ![p] = SaveAfter(6, r.i + 1, r.nvar)]
                   /\ UNCHANGED <<out, job>>
              ELSE /\ WriteError(p)
                   /\ sv' = [sv EXCEPT ![p].datalabel = dl]
    /\ UNCHANGED <<Globals, ld, ret>>

\* the three zero bytes that end the characteristics
SaveChars(p) ==
    /\ pc[p] = "s_chars"
    /\ \E taken \in BOOLEAN :
          IF WriteOK(3, taken)
          THEN /\ fp' = Put(p, Zeros(3))
               /\ sv' = [sv EXCEPT ![p].i = 0, ![p].j = 0]
               /\ pc' = [pc EXCEPT ![p] = IF 0 < sv[p].nobs /\ 0 < sv[p].nvar
                                          THEN "s_data" ELSE "s_finish"]
               /\ UNCHANGED <<out, job>>
          ELSE /\ WriteError(p)
               /\ UNCHANGED sv
    /\ UNCHANGED <<Globals, ld, ret>>

\* the bytes written for a cell of a column: OutIntegerBinary, OutDoubleBinary,
\* or the string's bytes and types[j] - k zero bytes after them
CellBytes(col, cell, width) ==
    IF col.type = "LGLSXP" \/ col.type = "INTSXP" THEN OutIntegerBinary(cell, FALSE)
    ELSE IF col.type = "REALSXP" THEN OutDoubleBinary(cell, FALSE)
    ELSE cell \o Zeros(IF width > Len(cell) THEN width - Len(cell) ELSE 0)

\* one round of the data loops: cell i of column j
SaveCell(p) ==
    /\ pc[p] = "s_data"
    /\ LET r    == sv[p]
           col  == job[p].df.cols[r.j + 1]
           cell == col.cells[r.i + 1]
           str  == col.type = "STRSXP"
           last == r.j + 1 = r.nvar
           i1   == IF last THEN r.i + 1 ELSE r.i
           loc  == [r EXCEPT !.k = IF str THEN Len(cell) ELSE @]
       IN  \E taken \in BOOLEAN :
              IF WriteOK(IF str THEN Len(cell) ELSE 1, taken)
              THEN /\ fp' = Put(p, CellBytes(col, cell, r.types[r.j + 1]))
                   /\ sv' = [sv EXCEPT ![p] =
                               [loc EXCEPT !.l = IF str THEN 0 ELSE @,
                                           !.j = IF last THEN 0 ELSE r.j + 1,
                                           !.i = i1]]
                   /\ pc' = [pc EXCEPT ![p] = IF i1 < r.nobs THEN "s_data" ELSE "s_finish"]
                   /\ UNCHANGED <<out, job>>
              ELSE /\ WriteError(p)
                   /\ sv' = [sv EXCEPT ![p] = loc]
    /\ UNCHANGED <<Globals, ld, ret>>

\* R_SaveStataData returns
SaveFinish(p) ==
    /\ pc[p] = "s_finish"
    /\ pc' = [pc EXCEPT ![p] = "w_close"]
    /\ UNCHANGED <<Globals, fp, ld, sv, ret, out, job>>

\* fclose(fp); return R_NilValue
WriteClose(p) ==
    /\ pc[p] = "w_close"
    /\ fp' = [fp EXCEPT ![p].open = FALSE]
    /\ out' = [out EXCEPT ![p] = [status |-> "ok", msg |-> "", value |-> NoDf]]
    /\ pc' = [pc EXCEPT ![p] = "idle"]
    /\ job' = [job EXCEPT ![p].calls = Tail(@)]
    /\ UNCHANGED <<Globals, ld, sv, ret>>

(***************************************************************************)
(* The inputs: the .dta files given to do_readStata and the data frames    *)
(* given to do_writeStata                                                  *)
(***************************************************************************)
\* the most columns and rows of an input, and the most characteristics of a file
MaxVar == 2
MaxObs == 2
MaxRecs == 2

RECURSIVE Flatten(_)
Flatten(ss) == IF ss = <<>> THEN <<>> ELSE Head(ss) \o Flatten(Tail(ss))

\* element number idx of a list, counted round from 0
Pick(list, idx) == list[(idx % Len(list)) + 1]

\* a multi-byte value as a file with byte order flag `flag` holds it
Wire(v, flag) == IF flag = LOHI THEN v ELSE Reverse(v)

ShortBytes(n) == << n \div 256, n % 256 >>

\* values of cells as a file may hold them, most significant byte first
FloatWires == << <<127, 0, 0, 0>>, <<63, 192, 0, 0>>, <<127, 192, 0, 1>>,
                 <<0, 0, 0, 1>>, <<127, 128, 0, 1>> >>
DoubleWires == << Pow2_1023, <<64, 9, 33, 251, 84, 68, 45, 24>>, NA_REAL,
                  <<255, 240, 0, 0, 0, 0, 0, 0>> >>
IntWires == << <<127, 255, 255, 255>>, <<128, 0, 0, 0>>, <<1, 2, 3, 4>>,
               <<255, 255, 255, 127>> >>
ShortWires == << <<127, 255>>, <<255, 127>>, <<1, 2>> >>
ByteWires == << <<127>>, <<0>>, <<255>> >>

\* a string cell of width w: letters, with a zero byte at place idx % (w + 1)
\* unless idx is a multiple of 3
StrWire(w, idx) ==
    [k \in 1..w |-> IF idx % 3 # 0 /\ k - 1 = idx % (w + 1) THEN 0
                    ELSE 97 + ((k + idx) % 26)]

WireCell(tag, idx, flag) ==
    IF tag = STATA_FLOAT THEN Wire(Pick(FloatWires, idx), flag)
    ELSE IF tag = STATA_DOUBLE THEN Wire(Pick(DoubleWires, idx), flag)
    ELSE IF tag = STATA_INT THEN Wire(Pick(IntWires, idx), flag)
    ELSE IF tag = STATA_SHORTINT THEN Wire(Pick(ShortWires, idx), flag)
    ELSE IF tag = STATA_BYTE THEN Pick(ByteWires, idx)
    ELSE IF tag >= STATA_STRINGOFFSET THEN StrWire(tag - STATA_STRINGOFFSET, idx)
    ELSE <<>>

NameList == << <<120, 46, 121>>, <<118, 95, 50>>,
               <<97, 98, 99, 100, 101, 102, 103, 104, 105, 106>> >>

\* the header of a file
MkHeader(ver, flag, nvar, nobsBytes) ==
    <<ver, flag, 1, 0>> \o Wire(ShortBytes(nvar), flag) \o Wire(nobsBytes, flag)
    \o strncpy(<<100, 116, 97>>, IF ver = VERSION_5 THEN 32 ELSE 81)
    \o strncpy(<<49, 32, 74, 97, 110>>, 18)

\* a file: version, byte order flag, type tags, rows, the payload lengths of its
\* characteristics, the length that ends them, and where its cells start in the
\* lists of values
MkFile(ver, flag, tags, nobs, recs, term, s) ==
    LET n == Len(tags)
        L == IF ver = VERSION_5 THEN 32 ELSE 81
    IN  MkHeader(ver, flag, n, BytesOfInt(nobs))
        \o tags
        \o Flatten([j \in 1..n |-> strncpy(Pick(NameList, j + s), 9)])
        \o Zeros(2 * (n + 1))
        \o Flatten([j \in 1..n |-> strncpy(<<37, 57, 46, 48, 103>>, 12)])
        \o Zeros(9 * n)
        \o Flatten([j \in 1..n |-> strncpy(Pick(NameList, j + s + 1), L)])
        \o Flatten([k \in 1..Len(recs) |->
                      <<k>> \o Wire(ShortBytes(recs[k]), flag) \o [m \in 1..recs[k] |-> 7]])
        \o <<0>> \o Wire(ShortBytes(term), flag)
        \o Flatten([c \in 1..(nobs * n) |->
                      WireCell(tags[((c - 1) % n) + 1],
                               s + ((c - 1) \div n) + ((c - 1) % n), flag)])

TagList == <<STATA_FLOAT, STATA_DOUBLE, STATA_INT, STATA_SHORTINT, STATA_BYTE,
             129, 255, 127>>

\* n type tags, taken round the list from place t
TagSeq(n, t) == [j \in 1..n |-> Pick(TagList, t + j - 1)]

Versions == {VERSION_5, VERSION_6}
Flags == {LOHI, HILO}

\* files of every layout: version, byte order, columns, rows, cell values
LayoutFiles ==
    { MkFile(ver, flag, TagSeq(n, t), nobs, <<>>, 0, s) :
        ver \in Versions, flag \in Flags, n \in 0..MaxVar,
        t \in 0..(Len(TagList) - 1), nobs \in 0..MaxObs, s \in 0..(Len(IntWires) - 1) }

\* files with one column of each type tag 0..255 and one row
TagFiles == { MkFile(VERSION_5, LOHI, <<t>>, 1, <<>>, 0, 0) : t \in Byte }

RecLens == <<2, 0, 256, 1>>

\* files with characteristics, and an end of them that is or is not 0
CharFiles ==
    { MkFile(VERSION_5, flag, <<STATA_BYTE>>, 1, [k \in 1..n |-> Pick(RecLens, r + k)],
             term, 1) :
        flag \in Flags, n \in 0..MaxRecs, r \in 0..(Len(RecLens) - 1),
        term \in {0, 1, 256} }

BaseFile == MkFile(VERSION_5, LOHI, <<STATA_FLOAT, 129>>, 1, <<2>>, 0, 1)

\* files cut short at every place
ShortFiles == { SubSeq(BaseFile, 1, n) : n \in 0..(Len(BaseFile) - 1) }

\* files of every other version
VersionFiles == { <<v>> \o Tail(BaseFile) : v \in Byte \ Versions }

\* files whose counts are the bytes of a missing value, which end after the header
CountFiles ==
    { MkHeader(VERSION_6, flag, STATA_SHORTINT_NA, BytesOfInt(0)) : flag \in Flags }
    \cup { SubSeq(MkHeader(VERSION_6, flag, 1, BytesOfInt(STATA_INT_NA)), 1, 10) :
             flag \in Flags }

InputFiles ==
    LayoutFiles \cup TagFiles \cup CharFiles \cup ShortFiles \cup VersionFiles
    \cup CountFiles

\* values of cells of data frames
IntVals == <<0, STATA_INT_NA, -1, NA_INTEGER, 1, -2147483647>>
LglVals == <<1, 0, NA_INTEGER>>
RealVals == << DoubleOne, Pow2_1023, <<192, 4, 0, 0, 0, 0, 0, 0>>,
               <<127, 240, 0, 0, 0, 0, 0, 0>>, NA_REAL,
               <<64, 9, 33, 251, 84, 68, 45, 24>> >>
StrVals == << <<97, 98>>, <<99, 100, 101>>, <<97, 98>>, <<>> >>

ColTypes == <<"INTSXP", "REALSXP", "STRSXP", "LGLSXP">>

CellVal(type, idx) ==
    IF type = "INTSXP" THEN Pick(IntVals, idx)
    ELSE IF type = "REALSXP" THEN Pick(RealVals, idx)
    ELSE IF type = "STRSXP" THEN Pick(StrVals, idx)
    ELSE Pick(LglVals, idx)

\* a data frame of n columns and nobs rows: types round the list from t, cells
\* round the lists of values from s
MkDf(n, t, nobs, s) ==
    [NoDf EXCEPT
       !.class = "data.frame",
       !.names = [j \in 1..n |-> Pick(NameList, j + s)],
       !.cols = [j \in 1..n |->
                   [type |-> Pick(ColTypes, t + j - 1),
                    cells |-> [i \in 1..nobs |->
                                 CellVal(Pick(ColTypes, t + j - 1), s + i + j - 2)]]]]

DataFrames ==
    { MkDf(n, t, nobs, s) : n \in 1..MaxVar, t \in 0..(Len(ColTypes) - 1),
                            nobs \in 0..MaxObs, s \in 0..(Len(RealVals) - 1) }

\* an argument that is no data frame, and one with a column of another type
OtherArgs ==
    { [MkDf(1, 0, 1, 0) EXCEPT !.class = "list"],
      [MkDf(2, 0, 1, 0) EXCEPT !.cols[2].type = "CPLXSXP"] }

\* what a call chain does: read a file, or write a data frame and read it back
Tasks ==
    { [calls |-> <<"read">>, df |-> NoDf, file |-> f] : f \in InputFiles }
    \cup { [calls |-> <<"write", "read">>, df |-> d, file |-> <<>>] :
             d \in DataFrames \cup OtherArgs }

(***************************************************************************)
(* The specification: one call chain, as R's interpreter runs them         *)
(***************************************************************************)
InitOf(procs, tasks) ==
    /\ machine \in {"big", "little"}
    /\ endian = 0
    /\ stata_endian = 0
    /\ STATA_FLOAT_NA = DoubleZero
    /\ STATA_DOUBLE_NA = DoubleZero
    /\ pc = [p \in procs |-> "idle"]
    /\ \E t \in [procs -> tasks] :
          /\ fp = [p \in procs |-> [bytes |-> t[p].file, pos |-> 0, open |-> FALSE]]
          /\ job = [p \in procs |-> [calls |-> t[p].calls, df |-> t[p].df]]
    /\ ld = [p \in procs |-> LdInit]
    /\ sv = [p \in procs |-> SvInit]
    /\ ret = [p \in procs |-> RetInit]
    /\ out = [p \in procs |-> OutInit]

Init == InitOf({1}, Tasks)

Next ==
    \/ \E p \in Procs : ReadOpen(p)
    \/ \E p \in Procs : LoadSetup(p)
    \/ \E p \in Procs : LoadVersion(p)
    \/ \E p \in Procs : LoadByteOrder(p)
    \/ \E p \in Procs : LoadJunk(p)
    \/ \E p \in Procs : LoadNvar(p)
    \/ \E p \in Procs : LoadNobs(p)
    \/ \E p \in Procs : LoadDataLabel(p)
    \/ \E p \in Procs : LoadTimestamp(p)
    \/ \E p \in Procs : LoadType(p)
    \/ \E p \in Procs : LoadName(p)
    \/ \E p \in Procs : LoadSortlist(p)
    \/ \E p \in Procs : LoadFormat(p)
    \/ \E p \in Procs : LoadValueLabel(p)
    \/ \E p \in Procs : LoadVarLabel(p)
    \/ \E p \in Procs : LoadCharType(p)
    \/ \E p \in Procs : LoadCharLen(p)
    \/ \E p \in Procs : LoadCharSkip(p)
    \/ \E p \in Procs : LoadTermLen(p)
    \/ \E p \in Procs : LoadCell(p)
    \/ \E p \in Procs : LoadFinish(p)
    \/ \E p \in Procs : ReadClose(p)
    \/ \E p \in Procs : WriteOpen(p)
    \/ \E p \in Procs : SaveSetup(p)
    \/ \E p \in Procs : SaveHeaderByte(p)
    \/ \E p \in Procs : SaveNvar(p)
    \/ \E p \in Procs : SaveNobs(p)
    \/ \E p \in Procs : SaveDataLabel(p)
    \/ \E p \in Procs : SaveTimestamp(p)
    \/ \E p \in Procs : SaveType(p)
    \/ \E p \in Procs : SaveName(p)
    \/ \E p \in Procs : SaveSortlist(p)
    \/ \E p \in Procs : SaveFormat(p)
    \/ \E p \in Procs : SaveValueLabel(p)
    \/ \E p \in Procs : SaveVarLabel(p)
    \/ \E p \in Procs : SaveChars(p)
    \/ \E p \in Procs : SaveCell(p)
    \/ \E p \in Procs : SaveFinish(p)
    \/ \E p \in Procs : WriteClose(p)

Spec == Init /\ [][Next]_vars

(***************************************************************************)
(* Round trips: a data frame written by do_writeStata and read back by     *)
(* do_readStata                                                            *)
(***************************************************************************)
\* the chain of p wrote its data frame and read the file back, both without error
RoundTripDone(p) ==
    /\ pc[p] = "idle"
    /\ job[p].calls = <<>>
    /\ job[p].df.class = "data.frame"
    /\ out[p].status = "ok"
    /\ out[p].value.class = "data.frame"

\* is.na of a cell
IsMissing(type, cell) ==
    IF type = "INTSXP" \/ type = "LGLSXP" THEN cell = NA_INTEGER
    ELSE IF type = "REALSXP" THEN IsNaN(cell)
    ELSE FALSE

NumericOnly(df) == \A j \in 1..Len(df.cols) : df.cols[j].type \in {"INTSXP", "REALSXP"}

NoMissing(df) ==
    \A j \in 1..Len(df.cols) : \A i \in 1..Len(df.cols[j].cells) :
       ~IsMissing(df.cols[j].type, df.cols[j].cells[i])

\* no cell is written as the bytes of Stata's missing value
NoSentinel(df) ==
    \A j \in 1..Len(df.cols) : \A i \in 1..Len(df.cols[j].cells) :
       /\ df.cols[j].type = "INTSXP" => df.cols[j].cells[i] # STATA_INT_NA
       /\ df.cols[j].type = "REALSXP" =>
             R_FINITE(df.cols[j].cells[i]) /\ df.cols[j].cells[i] # Pow2_1023

\* the data frame read has the columns and cells of the one written, none
\* missing, with type long-int for an integer and double for a real column
Reproduced(p) ==
    LET a == job[p].df
        b == out[p].value
    IN  /\ Len(b.cols) = Len(a.cols)
        /\ \A j \in 1..Len(a.cols) :
              /\ b.cols[j].type = a.cols[j].type
              /\ ld[p].types[j] = IF a.cols[j].type = "INTSXP" THEN STATA_INT
                                  ELSE STATA_DOUBLE
              /\ b.cols[j].cells = a.cols[j].cells
        /\ NoMissing(b)

\* C1, as claimed: a data frame of integer and real columns without missing
\* cells is reproduced cell by cell by writing and reading it, whatever the
\* values of its cells
C1_AnyValueReproduced ==
    \A p \in Procs :
       (RoundTripDone(p) /\ NumericOnly(job[p].df) /\ NoMissing(job[p].df))
          => Reproduced(p)

\* C1, amended: a data frame of integer and real columns without missing
\* cells, with no integer cell 2147483647 and every real cell finite and not
\* 2^1023, is reproduced cell by cell by writing and reading it; its integer
\* columns are read as long-int and its real columns as double
C1_RoundTripNumeric ==
    \A p \in Procs :
       (/\ RoundTripDone(p)
        /\ NumericOnly(job[p].df)
        /\ NoMissing(job[p].df)
        /\ NoSentinel(job[p].df))
          => Reproduced(p)

\* C1, witness: a round trip of an integer and a real column with a row
C1_Witness ==
    \E p \in Procs :
       /\ RoundTripDone(p)
       /\ NoMissing(job[p].df)
       /\ NoSentinel(job[p].df)
       /\ Len(job[p].df.cols) = 2
       /\ job[p].df.cols[1].type = "INTSXP"
       /\ job[p].df.cols[2].type = "REALSXP"
       /\ Len(job[p].df.cols[1].cells) >= 1
       /\ out[p].value.cols[1].cells = job[p].df.cols[1].cells
       /\ out[p].value.cols[2].cells = job[p].df.cols[2].cells

\* the string columns of a data frame hold at least a cell
TextCols(df) == { j \in 1..Len(df.cols) : df.cols[j].type = "STRSXP" }

\* C2, as claimed: writing and reading a data frame reproduces every cell of
\* its text columns, whatever the order of the cells in the column
C2_TextRoundTrip ==
    \A p \in Procs :
       RoundTripDone(p) =>
          \A j \in TextCols(job[p].df) :
             /\ j <= Len(out[p].value.cols)
             /\ out[p].value.cols[j].cells = job[p].df.cols[j].cells

\* the write call of p has written the type byte of column j
TypeWritten(p, j) ==
    /\ job[p].df.class = "data.frame"
    /\ job[p].calls # <<>>
    /\ Head(job[p].calls) = "write"
    /\ pc[p] # "idle"
    /\ Len(fp[p].bytes) >= 109 + j

\* C3, as claimed: the type byte written for a text column is 0x7F + w with w
\* the greatest length of the cells of the column, and w is the width kept
\* for the column's format and padding
C3_TagIsMaxLen ==
    \A p \in Procs : \A j \in TextCols(job[p].df) :
       (TypeWritten(p, j) /\ job[p].df.cols[j].cells # <<>>) =>
          LET w == MaxCellLen(job[p].df.cols[j].cells, Len(job[p].df.cols[j].cells))
          IN  /\ fp[p].bytes[109 + j] = STATA_STRINGOFFSET + w
              /\ sv[p].types[j] = w

(***************************************************************************)
(* Missing values                                                          *)
(***************************************************************************)
\* the byte order flag of the file of p
FileFlag(p) == IF Len(fp[p].bytes) >= 2 THEN fp[p].bytes[2] ELSE LOHI

NumericReaders == {"InByteBinary", "InShortIntBinary", "InIntegerBinary",
                   "InFloatBinary", "InDoubleBinary"}

\* the bytes that stand for a missing value in a file, most significant first
SentinelOf(fn) ==
    IF fn = "InByteBinary" THEN <<127>>
    ELSE IF fn = "InShortIntBinary" THEN <<127, 255>>
    ELSE IF fn = "InIntegerBinary" THEN <<127, 255, 255, 255>>
    ELSE IF fn = "InFloatBinary" THEN <<127, 0, 0, 0>>
    ELSE Pow2_1023

\* the last In*Binary call of p returned a missing value
RetMissing(p) ==
    IF ret[p].fn = "InFloatBinary" THEN IsNaN(FloatToDouble(ret[p].rval))
    ELSE IF ret[p].fn = "InDoubleBinary" THEN IsNaN(ret[p].rval)
    ELSE ret[p].ival = NA_INTEGER

\* the last In*Binary call of p returned the value its bytes v spell
RetLiteral(p, v) ==
    IF ret[p].fn = "InFloatBinary" THEN FloatToDouble(ret[p].rval) = FloatToDouble(v)
    ELSE IF ret[p].fn = "InDoubleBinary" THEN ret[p].rval = v
    ELSE IF ret[p].fn = "InIntegerBinary" THEN ret[p].ival = IntOfBytes(v)
    ELSE IF ret[p].fn = "InShortIntBinary" THEN ret[p].ival = v[1] * 256 + v[2]
    ELSE ret[p].ival = v[1]

\* bytes that are no sentinel and spell a value that is missing in R
HostMissing(fn, v) ==
    IF fn = "InFloatBinary" THEN IsNaN(FloatToDouble(v))
    ELSE IF fn = "InDoubleBinary" THEN IsNaN(v)
    ELSE IF fn = "InIntegerBinary" THEN v = <<128, 0, 0, 0>>
    ELSE FALSE

\* the write call of p has just written a cell: its place (row, column), from 0
CellJustWritten(p) ==
    /\ pc[p] \in {"s_data", "s_finish"}
    /\ sv[p].i > 0 \/ sv[p].j > 0

LastRow(p) == IF sv[p].j > 0 THEN sv[p].i ELSE sv[p].i - 1
LastCol(p) == IF sv[p].j > 0 THEN sv[p].j - 1 ELSE sv[p].nvar - 1

\* the last n bytes of the file of p
FileTail(p, n) == SubSeq(fp[p].bytes, Len(fp[p].bytes) - n + 1, Len(fp[p].bytes))

\* a missing integer, logical or real cell is written as the sentinel of its
\* wire type, in the byte order the file declares
MissingWrittenAsSentinel(p) ==
    CellJustWritten(p) =>
       LET col  == job[p].df.cols[LastCol(p) + 1]
           cell == col.cells[LastRow(p) + 1]
       IN  /\ (col.type \in {"INTSXP", "LGLSXP"} /\ IsMissing(col.type, cell)) =>
                 FileTail(p, 4) = Wire(<<127, 255, 255, 255>>, FileFlag(p))
           /\ (col.type = "REALSXP" /\ IsMissing(col.type, cell)) =>
                 FileTail(p, 8) = Wire(Pow2_1023, FileFlag(p))

\* C4, as claimed: a data cell is read as missing exactly when its bytes are
\* the sentinel of its storage kind, a count of the header is read as its
\* bytes spell it, and a missing cell is written as the sentinel
C4_MissingIffSentinel ==
    \A p \in Procs :
       /\ ret[p].fn \in NumericReaders =>
             LET v == Wire(ret[p].wire, FileFlag(p))
             IN  IF ret[p].naok
                 THEN RetLiteral(p, v)
                 ELSE RetMissing(p) <=> (v = SentinelOf(ret[p].fn))
       /\ MissingWrittenAsSentinel(p)

\* C4, amended: a data cell whose bytes are the sentinel of its storage kind
\* is read as missing; any other bytes are read as the value they spell,
\* which is missing only for the bytes of R's own missing values (the
\* long-int -2147483648, a float or double NaN); a count of the header is
\* read as its bytes spell it; a missing cell is written as the sentinel
C4_SentinelIsMissing ==
    \A p \in Procs :
       /\ ret[p].fn \in NumericReaders =>
             LET v == Wire(ret[p].wire, FileFlag(p))
             IN  IF ret[p].naok
                 THEN RetLiteral(p, v)
                 ELSE /\ v = SentinelOf(ret[p].fn) => RetMissing(p)
                      /\ v # SentinelOf(ret[p].fn) => RetLiteral(p, v)
                      /\ RetMissing(p) <=>
                            (v = SentinelOf(ret[p].fn) \/ HostMissing(ret[p].fn, v))
       /\ MissingWrittenAsSentinel(p)

\* C4, witness: a long-int cell with the sentinel's bytes, in a file of the
\* other byte order than the host's, was read as missing
C4_Witness ==
    \E p \in Procs :
       /\ ret[p].fn = "InIntegerBinary"
       /\ ~ret[p].naok
       /\ ld[p].swapends = 1
       /\ Wire(ret[p].wire, FileFlag(p)) = <<127, 255, 255, 255>>
       /\ ret[p].ival = NA_INTEGER

(***************************************************************************)
(* The stream, the version byte and the type tags                          *)
(***************************************************************************)
\* C5, as claimed: however a call of do_readStata or do_writeStata ends, the
\* stream it opened is closed
C5_StreamClosedAtExit ==
    \A p \in Procs : pc[p] = "idle" => ~fp[p].open

\* the chain of p reads a given file (it does not write one first)
ReadsFile(p) == job[p].df.class = "none"

\* C7: a file whose first byte is neither 0x69 nor 0x6C is rejected with the
\* version error when exactly one byte has been read; nothing else is read
\* (the byte order flag, the counts, the labels) and no data frame, not even
\* a part of one, comes back
C7_BadVersionRejected ==
    \A p \in Procs :
       (/\ ReadsFile(p)
        /\ Len(fp[p].bytes) >= 1
        /\ fp[p].bytes[1] \notin {105, 108})
          => /\ pc[p] \in {"idle", "l_setup", "l_version"}
             /\ fp[p].pos <= 1
             /\ out[p].status # "ok"
             /\ out[p].value = NoDf
             /\ ld[p].df = NoDf
             /\ stata_endian = 0
             /\ ld[p].nvar = 0 /\ ld[p].nobs = 0
             /\ (out[p].status = "error" /\ fp[p].open) =>
                   /\ out[p].msg = "Not a Stata v5 or v6 file"
                   /\ fp[p].pos = 1

\* C7, witness: a file of another version was rejected after one byte
C7_Witness ==
    \E p \in Procs :
       /\ ReadsFile(p)
       /\ Len(fp[p].bytes) > 1
       /\ fp[p].bytes[1] = 107
       /\ out[p].status = "error"
       /\ out[p].msg = "Not a Stata v5 or v6 file"
       /\ fp[p].pos = 1

FixedTags == {STATA_FLOAT, STATA_DOUBLE, STATA_INT, STATA_SHORTINT, STATA_BYTE}

\* the type tags p has read: all were taken but the last, if it raised the error
TagTaken(p, k) == k <= Len(ld[p].df.cols)

\* the read call of p ended with the unknown data type error
UnknownType(p) ==
    /\ out[p].status = "error"
    /\ out[p].msg = "Unknown data type"

\* C9, as claimed: a type tag is taken only if it is one of the five fixed
\* tags or 0x7F + width with width in 0..127, every other byte raises the
\* unknown data type error, and no string column has a width over 127
C9_TagsUpTo127 ==
    \A p \in Procs : \A k \in 1..Len(ld[p].types) :
       /\ TagTaken(p, k) <=> ld[p].types[k] \in FixedTags \cup 127..254
       /\ ~TagTaken(p, k) => UnknownType(p)
       /\ (TagTaken(p, k) /\ ld[p].types[k] \notin FixedTags) =>
             CellWidth(ld[p].types[k]) <= 127

\* C9, amended: a type tag is taken only if it is one of the five fixed tags
\* or 0x7F + width with width in 0..128 (the bytes 127..255), every other
\* byte raises the unknown data type error, and no string column has a width
\* over 128
C9_TagsUpTo128 ==
    \A p \in Procs : \A k \in 1..Len(ld[p].types) :
       /\ TagTaken(p, k) <=> ld[p].types[k] \in FixedTags \cup 127..255
       /\ ~TagTaken(p, k) => UnknownType(p)
       /\ (TagTaken(p, k) /\ ld[p].types[k] \notin FixedTags) =>
             /\ ld[p].df.cols[k].type = "STRSXP"
             /\ CellWidth(ld[p].types[k]) \in 0..128
             /\ \A i \in 1..Len(ld[p].df.cols[k].cells) :
                   Len(ld[p].df.cols[k].cells[i]) <= CellWidth(ld[p].types[k])

\* C9, witness: a column of tag 255 was read, with a cell of 128 bytes
C9_Witness ==
    \E p \in Procs :
       /\ ld[p].types = <<255>>
       /\ out[p].status = "ok"
       /\ Len(out[p].value.cols[1].cells) = 1
       /\ Len(out[p].value.cols[1].cells[1]) = 128

(***************************************************************************)
(* The layout of a file, as the format lays it out: computed from the      *)
(* bytes of the file alone                                                 *)
(***************************************************************************)
\* a number from bytes in the byte order the file declares
FileShort(f, off) == LET v == Wire(SubSeq(f, off + 1, off + 2), f[2])
                     IN  v[1] * 256 + v[2]

FileL(f) == IF f[1] = 105 THEN 32 ELSE 81
FileNvar(f) == FileShort(f, 4)
FileNobs(f) == IntOfBytes(Wire(SubSeq(f, 7, 10), f[2]))

\* where the type tags start, and where the characteristics start
TagsOff(f) == 10 + FileL(f) + 18
CharsOff(f) == TagsOff(f) + FileNvar(f) * (1 + 9 + 12 + 9 + FileL(f))
               + 2 * (FileNvar(f) + 1)

RECURSIVE CharRecs(_, _)
\* the payload lengths c_1 .. c_k of the characteristics from offset off on,
\* up to the first record of type 0 (or the end of the file)
CharRecs(f, off) ==
    IF off + 3 > Len(f) \/ f[off + 1] = 0 THEN <<>>
    ELSE <<FileShort(f, off + 1)>> \o CharRecs(f, off + 3 + FileShort(f, off + 1))

RECURSIVE SumRecs(_, _)
\* the bytes of the first k characteristics: the sum of 3 + c_i
SumRecs(recs, k) == IF k = 0 THEN 0 ELSE SumRecs(recs, k - 1) + 3 + recs[k]

\* where record k + 1 of the characteristics starts
RecOff(f, k) == CharsOff(f) + SumRecs(CharRecs(f, CharsOff(f)), k)

NumRecs(f) == Len(CharRecs(f, CharsOff(f)))

\* where the length of the record of type 0 is, and where the data start
TermOff(f) == RecOff(f, NumRecs(f)) + 1
DataOff(f) == TermOff(f) + 2

\* the file has its characteristics whole, up to the record of type 0
CharsWhole(f) == TermOff(f) <= Len(f) /\ f[TermOff(f)] = 0

\* the width of a cell of column j (from 1), from its type tag
FileWidth(f, j) ==
    LET t == f[TagsOff(f) + j]
    IN  IF t = 102 THEN 4 ELSE IF t = 100 THEN 8 ELSE IF t = 108 THEN 4
        ELSE IF t = 105 THEN 2 ELSE IF t = 98 THEN 1 ELSE t - 127

RECURSIVE RowWidth(_, _)
\* the bytes of the first j cells of a row
RowWidth(f, j) == IF j = 0 THEN 0 ELSE RowWidth(f, j - 1) + FileWidth(f, j)

LoadPcs == {"l_setup", "l_version", "l_byteorder", "l_filetype", "l_padding",
            "l_nvar", "l_nobs", "l_datalabel", "l_timestamp", "l_types", "l_names",
            "l_sortlist", "l_formats", "l_vallabels", "l_varlabels", "l_chartype",
            "l_charlen", "l_charskip", "l_termlen", "l_data", "l_finish", "r_close"}

\* the read call of p returned a data frame
ReadDone(p) ==
    /\ pc[p] = "idle"
    /\ out[p].status = "ok"
    /\ out[p].value.class = "data.frame"

\* where the stream of p is when its control is at a place of the read call
\* outside the characteristics
PlaceOff(p) ==
    LET f == fp[p].bytes
        L == FileL(f)
        n == FileNvar(f)
        i == ld[p].i
        at == pc[p]
    IN  CASE at \in {"l_setup", "l_version"} -> 0
          [] at = "l_byteorder" -> 1
          [] at = "l_filetype" -> 2
          [] at = "l_padding" -> 3
          [] at = "l_nvar" -> 4
          [] at = "l_nobs" -> 6
          [] at = "l_datalabel" -> 10
          [] at = "l_timestamp" -> 10 + L
          [] at = "l_types" -> 10 + L + 18 + i
          [] at = "l_names" -> 10 + L + 18 + n + 9 * i
          [] at = "l_sortlist" -> 10 + L + 18 + n * (1 + 9) + i
          [] at = "l_formats" -> 10 + L + 18 + n * (1 + 9) + 2 * (n + 1) + 12 * i
          [] at = "l_vallabels" -> 10 + L + 18 + n * (1 + 9 + 12) + 2 * (n + 1) + 9 * i
          [] at = "l_varlabels" ->
                10 + L + 18 + n * (1 + 9 + 12 + 9) + 2 * (n + 1) + L * i
          [] at = "l_termlen" -> DataOff(f) - 2
          [] at = "l_data" ->
                DataOff(f) + ld[p].i * RowWidth(f, n) + RowWidth(f, ld[p].j)
          [] OTHER -> DataOff(f) + FileNobs(f) * RowWidth(f, n)

\* C10: a read is one pass in the order header, type tags, names, sort list,
\* formats, value label names, variable labels, characteristics, data: at
\* each of these places the stream is at the offset the layout gives it; the
\* first cell is read at offset 10 + L + 18 + n*(1+9+12+9+L) + 2*(n+1)
\* + sum(3 + c_i) + 3, and the data take nobs times the sum of the widths of
\* the columns, row by row in the order of the columns
C10_FixedLayout ==
    \A p \in Procs :
       /\ (pc[p] \in LoadPcs \ {"l_chartype", "l_charlen", "l_charskip"})
             => fp[p].pos = PlaceOff(p)
       /\ pc[p] \in {"l_chartype", "l_charlen", "l_charskip"}
             => /\ fp[p].pos >= CharsOff(fp[p].bytes)
                /\ CharsWhole(fp[p].bytes) => fp[p].pos < DataOff(fp[p].bytes) - 2
       /\ (pc[p] = "l_data" /\ ld[p].i = 0 /\ ld[p].j = 0) =>
             fp[p].pos = LET f == fp[p].bytes
                         IN  10 + FileL(f) + 18
                             + FileNvar(f) * (1 + 9 + 12 + 9 + FileL(f))
                             + 2 * (FileNvar(f) + 1)
                             + SumRecs(CharRecs(f, CharsOff(f)), NumRecs(f)) + 3
       /\ ReadDone(p) => fp[p].pos = PlaceOff(p)

\* C10, witness: a file of version 5 with two columns and two rows was read
\* to its end
C10_Witness ==
    \E p \in Procs :
       /\ ReadDone(p)
       /\ ReadsFile(p)
       /\ fp[p].bytes[1] = 105
       /\ ld[p].nvar = 2
       /\ ld[p].nobs = 2
       /\ fp[p].pos = Len(fp[p].bytes)

\* C10, witness of the characteristics: a file with two of them was read
C10_WitnessRecs ==
    \E p \in Procs :
       /\ ReadDone(p)
       /\ NumRecs(fp[p].bytes) = 2
       /\ fp[p].pos = DataOff(fp[p].bytes) + 1

(***************************************************************************)
(* C8: the characteristics                                                 *)
(***************************************************************************)
\* the length that follows the record of type 0, in the byte order of the file
TermLen(f) == FileShort(f, TermOff(f))

\* no cell of the data has been read by p
NoCellRead(p) == \A j \in 1..Len(ld[p].df.cols) : ld[p].df.cols[j].cells = <<>>

\* the read of p is past the characteristics (the stream only moves forward)
PastChars(p) ==
    /\ ReadsFile(p)
    /\ Len(fp[p].bytes) >= 10
    /\ CharsWhole(fp[p].bytes)
    /\ DataOff(fp[p].bytes) <= Len(fp[p].bytes)
    /\ fp[p].pos >= DataOff(fp[p].bytes)

\* C8: the characteristics are stepped over record by record, each a type
\* byte, a 2-byte length and as many bytes as the length says, up to a record
\* of type 0; a length other than 0 after that type is rejected with an error,
\* before a cell of the data is read
C8_CharsSkipped ==
    \A p \in Procs :
       LET f == fp[p].bytes
           recs == CharRecs(f, CharsOff(f))
       IN  /\ pc[p] = "l_chartype" =>
                \E k \in 0..Len(recs) : fp[p].pos = RecOff(f, k)
           /\ pc[p] = "l_charlen" =>
                \E k \in 0..Len(recs) : fp[p].pos = RecOff(f, k) + 1
           /\ pc[p] = "l_charskip" =>
                \E k \in 1..Len(recs) :
                   /\ ld[p].charlen = recs[k]
                   /\ ld[p].i < recs[k]
                   /\ fp[p].pos = RecOff(f, k - 1) + 3 + ld[p].i
           /\ pc[p] = "l_termlen" =>
                /\ CharsWhole(f)
                /\ fp[p].pos = TermOff(f)
           /\ (PastChars(p) /\ TermLen(f) # 0) =>
                /\ pc[p] = "idle"
                /\ out[p].status = "error"
                /\ out[p].msg = "Something strange in the file"
                /\ fp[p].pos = DataOff(f)
                /\ NoCellRead(p)
           /\ (pc[p] \in {"l_data", "l_finish", "r_close"} \/ ReadDone(p)) =>
                /\ CharsWhole(f)
                /\ TermLen(f) = 0

\* C8, witness: a file with two characteristics, one of 256 bytes, and the
\* length 256 after the record of type 0 was rejected
C8_Witness ==
    \E p \in Procs :
       /\ PastChars(p)
       /\ NumRecs(fp[p].bytes) = 2
       /\ \E k \in 1..2 : CharRecs(fp[p].bytes, CharsOff(fp[p].bytes))[k] = 256
       /\ fp[p].bytes[2] = 2
       /\ TermLen(fp[p].bytes) = 256
       /\ out[p].status = "error"
       /\ out[p].msg = "Something strange in the file"

(***************************************************************************)
(* C6: two call chains at once, each on a stream of its own                *)
(***************************************************************************)
\* a file of version 5 with one short-int column, one row and a
\* characteristic; a file of version 6 in the other byte order; a data frame
\* of one column that is written and read back
ConcTasks ==
    { [calls |-> <<"read">>, df |-> NoDf,
       file |-> MkFile(VERSION_5, LOHI, <<STATA_SHORTINT>>, 1, <<1>>, 0, 1)],
      [calls |-> <<"read">>, df |-> NoDf,
       file |-> MkFile(VERSION_6, HILO, <<STATA_SHORTINT>>, 1, <<>>, 0, 2)],
      [calls |-> <<"write", "read">>, df |-> MkDf(1, 0, 1, 0), file |-> <<>>] }

InitConc == InitOf({1, 2}, ConcTasks)

SpecConc == InitConc /\ [][Next]_vars

\* the places of a read after nvar has been read
AfterNvar == LoadPcs \ {"l_setup", "l_version", "l_byteorder", "l_filetype",
                        "l_padding", "l_nvar"}

\* C6: calls that run at once on different streams do not interfere: every
\* read takes the number of variables from its file in the byte order that
\* file declares, as it does when it runs alone, whatever byte order another
\* read has met in the meantime
C6_DecodeAsAlone ==
    \A p \in Procs :
       pc[p] \in AfterNvar => /\ ld[p].nvar = FileNvar(fp[p].bytes)
                              /\ stata_endian = fp[p].bytes[2]

=============================================================================
